---- MODULE Spec2Model ----
(* Capture / endpointing engine of claude-voice-light: SherpaOnnxDetector    *)
(* (src/src/wake-word/index.ts) with the amplitude helper it calls           *)
(* (src/src/utils/audio.ts).                                                 *)
(*                                                                           *)
(* A chunk of PCM audio is modelled as a block of len bytes whose int16      *)
(* samples all carry the value val; the chunk lengths used keep              *)
(* bytes / 2 / sampleRate * 1000 exact in double arithmetic, so the integer  *)
(* comparison below is the comparison the code makes.  A buffer of chunks    *)
(* stands for the concatenation of their bytes.                              *)
EXTENDS Integers, Sequences, FiniteSets, TLC

(***************************************************************************)
(* Bounds of the model                                                     *)
(***************************************************************************)
MaxChunks == 4
MaxProcs == 2
MaxInit == 2
MaxUpdates == 4

(***************************************************************************)
(* Program constants                                                       *)
(***************************************************************************)
DefaultSilenceAmplitude == 500

\* null of silenceStartTime (number | null); timestamps are >= 0
NULL == 0 - 1
\* null of recordingProcess, kws and stream; a spotter and the stream
\* created from it carry the same name, a positive number
NoHandle == 0

(***************************************************************************)
(* Inputs                                                                  *)
(***************************************************************************)
ChunkLens == {16000, 48000}
ChunkVals == {100, 0 - 500}
Deltas == {300, 400}
Whitespace == {"sp", "tab"}
Reactions == {"none", "stop"}
InitOutcomes == {"missing", "ok", "throwCtor", "throwStream"}
CaptureOutcomes == {"ok", "unavailable"}
\* the spotter answers, or one of its calls made after acceptWaveform raises
SpotterFaults == {"none", "decode"}

\* inputs of updateSilenceDetector: sample values (amplitudes 0, 100 and
\* 500), chunk lengths (500 and 1000 ms of audio), ms between two calls, the
\* silenceAmplitude and silenceThresholdMs arguments, and the Date.now() of
\* the first call's caller
SdVals == {0, 100, 0 - 500}
SdLens == {16000, 32000}
SdDeltas == {0, 100, 110}
SdAmplitudes == {0, 500}
SdDurations == {200, 300}
SdClock == 1000

\* result.keyword of the keyword spotter: undefined, or a string ("", " ",
\* "h", " h\t"); a string is the sequence of its characters
KeywordResults ==
  {[present |-> FALSE, text |-> <<>>],
   [present |-> TRUE, text |-> <<>>],
   [present |-> TRUE, text |-> <<"sp">>],
   [present |-> TRUE, text |-> <<"h">>],
   [present |-> TRUE, text |-> <<"sp", "h", "tab">>]}

\* inputs of saveToWav and bufferToFloat32: the bytes a buffer is made of,
\* the longest buffer, sample rates and channel counts (the last one does
\* not fit the 16-bit BlockAlign field)
MaxPayload == 4
PayloadBytes == {0, 1, 127, 128, 255}
SampleRates == {8000, 16000, 44100}
ChannelCounts == {1, 2, 40000}
Int16Max == 32767
Int16Min == 0 - 32768
Int16Scale == 32768
Float32Bits == 24

\* the command listener: runs in flight at once, what writeFileSync does
\* (the file is written; it throws with nothing or with part of the file
\* on disk), how the promise of transcribe() settles (a text, an empty or
\* blank text, a rejection), how the promise of sendToClaudeCode() settles,
\* and the ms between two command events
MaxHandlers == 2
SaveOutcomes == {"ok", "throwNoFile", "throwPartial"}
TranscribeOutcomes == {"text", "empty", "blank", "throw"}
SendOutcomes == {"ok", "throw"}
PathDeltas == {0, 1}

\* the spotter seen call by call: chunks fed in Idle, and the decode steps
\* one chunk can make ready
MaxFed == 3
MaxFrames == 2

\* the command line: invocations of start, stop and restart, and daemons
\* spawned
MaxCli == 3
MaxDaemons == 3
NoPid == 0

\* config.ts: the key paths and the value strings the command line passes to
\* setConfigValue
CfgKeys == {"debug", "stt.language", "recording.sampleRate", "stt.hint"}
CfgInputs == {"true", "44100", "tr", "", "Infinity"}

\* RecordingConfig and WakeWordConfig.playSound, supplied at construction:
\* 16 kHz, a silence duration of 300 ms, a duration cap of 1000 ms; the
\* silence amplitude left at 0 (so that the default applies) with the cues
\* on, or set to 500 with the cues off
Configs ==
  {[sampleRate |-> 16000, silenceThreshold |-> 300, maxDuration |-> 1000,
    silenceAmplitude |-> 0, playSound |-> TRUE],
   [sampleRate |-> 16000, silenceThreshold |-> 300, maxDuration |-> 1000,
    silenceAmplitude |-> 500, playSound |-> FALSE]}

VARIABLES
  config,              \* wakeWordConfig + recordingConfig, fixed at construction
  kws, stream,         \* spotter handle and its stream (NoHandle = null)
  isListening,
  isRecordingCommand,
  recordingProcess,    \* capture process of the latest start() (NoHandle = null)
  audioBuffer,         \* chunks pushed since the buffer was last reset
  silenceStartTime,
  nproc,               \* capture processes spawned so far
  alive,               \* capture processes spawned and not killed
  now,                 \* Date.now()
  nchunks,             \* chunks delivered so far; a chunk's id is its arrival rank
  out,                 \* events emitted by the last operation, in order
  sounds,              \* playSound calls of the last operation, in order
  fed,                 \* the last operation fed its chunk to the spotter
  commands,            \* every command event so far: [ep, payload]
  cancelled,           \* ids of chunks buffered in an episode ended by stop()
  epoch,               \* listening events so far = number of the current episode
  epochOf,             \* epochOf[id]: episode in which chunk id was buffered, 0 if none
  last,                \* the last operation and its inputs
  dirty,               \* the stream reported a keyword and was not reset since
  ninit,               \* highest name given to a spotter so far
  madeStreams,         \* spotters whose createStream() returned a stream
  freedKws,            \* spotters on which free() was called
  freedStreams,        \* streams on which free() was called
  refreed,             \* free() was called on a handle already freed
  sdState,             \* SilenceDetectorState held by the caller of
                       \* updateSilenceDetector
  sdInit,              \* that state before the first update of sdTrace
  sdAmp, sdDur,        \* the caller's silenceAmplitude and silenceThresholdMs
  sdNow,               \* Date.now() of the detector's caller
  sdShouldEnd,         \* shouldEnd of the last updateSilenceDetector call
  sdStep,              \* updateSilenceDetector calls so far
  auBuffer,            \* a Buffer of PCM bytes
  auRate, auChannels,  \* sampleRate and channels passed to saveToWav
  auFile,              \* saveToWav(auBuffer, ...): [done, threw, bytes]
  auFloats,            \* bufferToFloat32(auBuffer): [done, threw, vals]
  auRead,              \* readWavFile of the file written: [done, threw, vals]
  hPc,                 \* hPc[h]: where run h of the command listener is:
                       \* "idle" (not started), "transcribing" or "sending"
                       \* (at an await), "done"
  hPath,               \* hPath[h]: its tempPath
  hHow,                \* hHow[h]: how it went
  hEscaped,            \* hEscaped[h]: its promise was rejected
  files,               \* the temporary files that exist
  hClock,              \* Date.now() of the latest command event
  kPc,                 \* where processAudioForKeyword is: "idle" (not
                       \* running), "isReady", "decode", "getResult"
  kPending,            \* decode steps the spotter's stream has ready
  kDue,                \* kPending right after the chunk was fed
  kAccepts, kDecodes,  \* acceptWaveform, decode and getResult calls made
  kReads,              \* for the current chunk
  kReadWhileReady,     \* getResult was called with a decode step ready
  kThrew,              \* a spotter call raised during the current chunk
  kFed,                \* chunks fed so far
  pidFile,             \* the pid written in daemon.pid, NoPid if no file
  procs,               \* daemons spawned and running
  wrote,               \* daemons that have written daemon.pid
  nspawn,              \* daemons spawned so far; a daemon's pid is its rank
  ncli,                \* command line invocations so far
  restarting,          \* restart invocations waiting to spawn
  cachedConfig,        \* the cached configuration, NoConfig if null
  cfgFile,             \* what config.json holds, NoConfig if it does not exist
  cfgSet,              \* cfgSet[k]: the value last set for key k since the
                       \* last reset, coerced; Undefined if none
  cfgGot,              \* the getConfigValue call since the last set: [key, val]
  sdTrace              \* the calls since the state was given or created:
                       \* t, amp = time and amplitude of the chunk; before =
                       \* the state passed; shouldEnd, start, rec = result and
                       \* fields of the state returned; passed = the object
                       \* passed, after the call; silent = isSilent of the
                       \* chunk; twin, twinEnd = silenceStartTime of an engine
                       \* given the same chunks, and whether it finished

vars == <<config, kws, stream, isListening, isRecordingCommand,
          recordingProcess, audioBuffer, silenceStartTime, nproc, alive, now,
          nchunks, out, sounds, fed, commands, cancelled, epoch, epochOf, last,
          dirty, ninit, madeStreams, freedKws, freedStreams, refreed, sdState,
          sdInit, sdAmp, sdDur, sdNow, sdShouldEnd, sdStep, sdTrace,
          auBuffer, auRate, auChannels, auFile, auFloats, auRead, hPc, hPath, hHow,
          hEscaped, files, hClock, kPc, kPending, kDue, kAccepts, kDecodes,
          kReads, kReadWhileReady, kThrew, kFed, pidFile, procs, wrote,
          nspawn, ncli, restarting, cachedConfig, cfgFile, cfgSet, cfgGot>>

audioVars == <<auBuffer, auRate, auChannels, auFile, auFloats, auRead>>

handlerVars == <<hPc, hPath, hHow, hEscaped, files, hClock>>

cfgVars == <<cachedConfig, cfgFile, cfgSet, cfgGot>>

daemonVars == <<pidFile, procs, wrote, nspawn, ncli, restarting>>

spotterVars == <<kPc, kPending, kDue, kAccepts, kDecodes, kReads, kReadWhileReady, kThrew, kFed>>

\* the variables of the parts checked beside the engine and the detector
sideVars == <<audioVars, handlerVars, spotterVars, daemonVars, cfgVars>>

sdVars == <<sdState, sdInit, sdAmp, sdDur, sdNow, sdShouldEnd, sdStep, sdTrace>>

engineVars ==
  <<config, kws, stream, isListening, isRecordingCommand, recordingProcess,
    audioBuffer, silenceStartTime, nproc, alive, now, nchunks, out, sounds,
    fed, commands, cancelled, epoch, epochOf, last, dirty, ninit, madeStreams,
    freedKws, freedStreams, refreed>>

(***************************************************************************)
(* Pure helpers                                                            *)
(***************************************************************************)
Abs(x) == IF x < 0 THEN 0 - x ELSE x

RECURSIVE TotalBytes(_)
\* this.audioBuffer.reduce((sum, b) => sum + b.length, 0)
TotalBytes(buf) ==
  IF buf = <<>> THEN 0 ELSE Head(buf).len + TotalBytes(Tail(buf))

IdSet(buf) == {buf[i].id : i \in 1..Len(buf)}

\* mean of |sample| over the chunk: (len/2 samples of value val)
calculateAmplitude(chunk) ==
  ((chunk.len \div 2) * Abs(chunk.val)) \div (chunk.len \div 2)

RECURSIVE TrimStart(_)
TrimStart(s) ==
  IF s # <<>> /\ Head(s) \in Whitespace THEN TrimStart(Tail(s)) ELSE s

RECURSIVE TrimEnd(_)
TrimEnd(s) ==
  IF s # <<>> /\ s[Len(s)] \in Whitespace
    THEN TrimEnd(SubSeq(s, 1, Len(s) - 1))
    ELSE s

\* String.prototype.trim
Trim(s) == TrimEnd(TrimStart(s))

KeywordDetected_noTrim(kw) == kw.present /\ kw.text # <<>>

\* result.keyword && result.keyword.trim() !== ''
KeywordDetected(kw) == kw.present /\ kw.text # <<>> /\ Trim(kw.text) # <<>>

\* !this.silenceStartTime : null and 0 are both falsy
Falsy(t) == t = NULL \/ t = 0

\* this.recordingConfig.silenceAmplitude || 500
EffSilenceAmplitude ==
  IF config.silenceAmplitude = 0
    THEN DefaultSilenceAmplitude
    ELSE config.silenceAmplitude

\* createSilenceDetectorState()
createSilenceDetectorState == [silenceStartTime |-> NULL, isRecording |-> FALSE]

\* SilenceDetectorState values a caller can pass: the fresh one, or one held
\* from earlier calls, with a timestamp of 0 or of 500
SdStates ==
  {createSilenceDetectorState,
   [silenceStartTime |-> 0, isRecording |-> TRUE],
   [silenceStartTime |-> 500, isRecording |-> TRUE]}

\* isSilent(buffer, threshold)
isSilent(buffer, threshold) == calculateAmplitude(buffer) < threshold

\* updateSilenceDetector() that ends once the silence has lasted the threshold
updateSilenceDetector_atThreshold(state, buffer, silenceAmplitude, silenceThresholdMs, t) ==
  IF calculateAmplitude(buffer) < silenceAmplitude
    THEN IF Falsy(state.silenceStartTime)
           THEN [state |-> [state EXCEPT !.silenceStartTime = t],
                 shouldEnd |-> FALSE]
           ELSE IF t - state.silenceStartTime >= silenceThresholdMs
             THEN [state |-> [state EXCEPT !.silenceStartTime = NULL],
                   shouldEnd |-> TRUE]
             ELSE [state |-> state, shouldEnd |-> FALSE]
    ELSE [state |-> [state EXCEPT !.silenceStartTime = NULL],
          shouldEnd |-> FALSE]

\* updateSilenceDetector() that keeps the timestamp when it reports the end
updateSilenceDetector_keepStart(state, buffer, silenceAmplitude, silenceThresholdMs, t) ==
  IF calculateAmplitude(buffer) < silenceAmplitude
    THEN IF Falsy(state.silenceStartTime)
           THEN [state |-> [state EXCEPT !.silenceStartTime = t],
                 shouldEnd |-> FALSE]
           ELSE IF t - state.silenceStartTime > silenceThresholdMs
             THEN [state |-> state, shouldEnd |-> TRUE]
             ELSE [state |-> state, shouldEnd |-> FALSE]
    ELSE [state |-> [state EXCEPT !.silenceStartTime = NULL],
          shouldEnd |-> FALSE]

\* updateSilenceDetector() that keeps the timestamp through a loud chunk
updateSilenceDetector_noReset(state, buffer, silenceAmplitude, silenceThresholdMs, t) ==
  IF calculateAmplitude(buffer) < silenceAmplitude
    THEN IF Falsy(state.silenceStartTime)
           THEN [state |-> [state EXCEPT !.silenceStartTime = t],
                 shouldEnd |-> FALSE]
           ELSE IF t - state.silenceStartTime > silenceThresholdMs
             THEN [state |-> [state EXCEPT !.silenceStartTime = NULL],
                   shouldEnd |-> TRUE]
             ELSE [state |-> state, shouldEnd |-> FALSE]
    ELSE [state |-> state, shouldEnd |-> FALSE]

\* updateSilenceDetector(state, buffer, silenceAmplitude, silenceThresholdMs),
\* t being the Date.now() it reads; !state.silenceStartTime holds of null
\* and of 0
updateSilenceDetector(state, buffer, silenceAmplitude, silenceThresholdMs, t) ==
  IF calculateAmplitude(buffer) < silenceAmplitude
    THEN IF Falsy(state.silenceStartTime)
           THEN [state |-> [state EXCEPT !.silenceStartTime = t],
                 shouldEnd |-> FALSE]
           ELSE IF t - state.silenceStartTime > silenceThresholdMs
             THEN [state |-> [state EXCEPT !.silenceStartTime = NULL],
                   shouldEnd |-> TRUE]
             ELSE [state |-> state, shouldEnd |-> FALSE]
    ELSE [state |-> [state EXCEPT !.silenceStartTime = NULL],
          shouldEnd |-> FALSE]

\* updateSilenceDetector() that writes the new timestamp into its argument
updateSilenceDetector_passed_inPlace(state, buffer, silenceAmplitude, silenceThresholdMs, t) ==
  updateSilenceDetector(state, buffer, silenceAmplitude, silenceThresholdMs,
                        t).state

\* the object passed to updateSilenceDetector, after the call: every branch
\* builds its result with { ...state, ... } or returns the argument as it is
updateSilenceDetector_passed(state, buffer, silenceAmplitude, silenceThresholdMs, t) ==
  state

(***************************************************************************)
(* utils/audio.ts: WAV encoding and sample conversion.  A Buffer is a      *)
(* sequence of bytes.  A number that a Float32Array holds is a record      *)
(* [num, exp] standing for num * 2^exp.                                    *)
(***************************************************************************)
RECURSIVE Pow2(_)
Pow2(n) == IF n = 0 THEN 1 ELSE 2 * Pow2(n - 1)

\* number of bits of the natural number n
RECURSIVE BitLength(_)
BitLength(n) == IF n = 0 THEN 0 ELSE 1 + BitLength(n \div 2)

\* n rounded to the nearest integer with at most bits significant bits, ties
\* to even
RoundToBits(n, bits) ==
  LET a == Abs(n)
      shift == BitLength(a) - bits
      unit == Pow2(shift)
      q == a \div unit
      r == a % unit
      up == 2 * r > unit \/ (2 * r = unit /\ q % 2 = 1)
      m == (IF up THEN q + 1 ELSE q) * unit
  IN  IF shift <= 0 THEN n ELSE IF n < 0 THEN 0 - m ELSE m

\* Buffer.writeUInt32LE, writeUInt16LE: the bytes written
UInt32LE(v) == <<v % 256, (v \div 256) % 256, (v \div 65536) % 256, (v \div 16777216) % 256>>

UInt16LE(v) == <<v % 256, (v \div 256) % 256>>

\* both raise a RangeError for a value outside the field; the numbers of
\* this module are all below 2^31
FitsUInt32(v) == v >= 0

FitsUInt16(v) == v >= 0 /\ v < Pow2(16)

\* Buffer.readUInt16LE, readInt16LE at a byte offset
readUInt16LE(b, off) == b[off + 1] + 256 * b[off + 2]

readInt16LE(b, off) ==
  LET u == readUInt16LE(b, off)
  IN  IF u > Int16Max THEN u - 2 * Int16Scale ELSE u

\* header.write('RIFF', 0) and the like: the ASCII codes
Ascii(str) ==
  CASE str = "RIFF" -> <<82, 73, 70, 70>>
    [] str = "WAVE" -> <<87, 65, 86, 69>>
    [] str = "fmt " -> <<102, 109, 116, 32>>
    [] str = "data" -> <<100, 97, 116, 97>>

\* saveToWav() that counts the header into the data size
saveToWav_sizeWithHeader(pcm, sampleRate, channels) ==
  LET dataSize == Len(pcm) + 44
      fileSize == dataSize + 36
      fits == /\ FitsUInt16(channels) /\ FitsUInt16(channels * 2)
              /\ FitsUInt32(fileSize) /\ FitsUInt32(sampleRate)
              /\ FitsUInt32(sampleRate * channels * 2)
              /\ FitsUInt32(dataSize)
      header == Ascii("RIFF") \o UInt32LE(fileSize) \o Ascii("WAVE")
                  \o Ascii("fmt ") \o UInt32LE(16) \o UInt16LE(1)
                  \o UInt16LE(channels) \o UInt32LE(sampleRate)
                  \o UInt32LE(sampleRate * channels * 2)
                  \o UInt16LE(channels * 2) \o UInt16LE(16)
                  \o Ascii("data") \o UInt32LE(dataSize)
  IN  IF fits
        THEN [done |-> TRUE, threw |-> FALSE, bytes |-> header \o pcm]
        ELSE [done |-> TRUE, threw |-> TRUE]

\* saveToWav(): the bytes of the file written, or a RangeError from a header
\* field that does not fit, before anything is written
saveToWav(pcm, sampleRate, channels) ==
  LET dataSize == Len(pcm)
      fileSize == dataSize + 36
      fits == /\ FitsUInt16(channels) /\ FitsUInt16(channels * 2)
              /\ FitsUInt32(fileSize) /\ FitsUInt32(sampleRate)
              /\ FitsUInt32(sampleRate * channels * 2)
              /\ FitsUInt32(dataSize)
      header == Ascii("RIFF") \o UInt32LE(fileSize) \o Ascii("WAVE")
                  \o Ascii("fmt ") \o UInt32LE(16) \o UInt16LE(1)
                  \o UInt16LE(channels) \o UInt32LE(sampleRate)
                  \o UInt32LE(sampleRate * channels * 2)
                  \o UInt16LE(channels * 2) \o UInt16LE(16)
                  \o Ascii("data") \o UInt32LE(dataSize)
  IN  IF fits
        THEN [done |-> TRUE, threw |-> FALSE, bytes |-> header \o pcm]
        ELSE [done |-> TRUE, threw |-> TRUE]

\* a Float32Array element assigned n / 32768.0, with a mantissa of 8 bits
toFloat32_mantissa8(n) == [num |-> RoundToBits(n, 8), exp |-> 0 - 15]

\* a Float32Array element assigned n / 32768.0: the quotient is exact as a
\* double and is rounded to the 24 significant bits of a float
toFloat32(n) == [num |-> RoundToBits(n, Float32Bits), exp |-> 0 - 15]

\* bufferToFloat32(): new Float32Array(buffer.length / 2) raises a
\* RangeError for a length that is not an integer
bufferToFloat32(buffer) ==
  IF Len(buffer) % 2 # 0
    THEN [done |-> TRUE, threw |-> TRUE]
    ELSE [done |-> TRUE, threw |-> FALSE,
          vals |-> [i \in 1..(Len(buffer) \div 2) |->
                      toFloat32(readInt16LE(buffer, 2 * (i - 1)))]]

\* readWavFile() that takes the data to start two bytes late
readWavFile_lateStart(file) ==
  IF (Len(file) - 46) % 2 # 0 \/ Len(file) < 46
    THEN [done |-> TRUE, threw |-> TRUE]
    ELSE [done |-> TRUE, threw |-> FALSE,
          vals |-> [i \in 1..((Len(file) - 46) \div 2) |->
                      toFloat32(readInt16LE(file, 46 + 2 * (i - 1)))]]

\* SherpaOnnxProvider.readWavFile(): the samples after the first 44 bytes;
\* new Float32Array raises a RangeError for a length that is not a natural
\* number
readWavFile(file) ==
  IF (Len(file) - 44) % 2 # 0 \/ Len(file) < 44
    THEN [done |-> TRUE, threw |-> TRUE]
    ELSE [done |-> TRUE, threw |-> FALSE,
          vals |-> [i \in 1..((Len(file) - 44) \div 2) |->
                      toFloat32(readInt16LE(file, 44 + 2 * (i - 1)))]]

(***************************************************************************)
(* The engine as a record, so that nested calls (a listener calling stop() *)
(* or start() while an event is being emitted) compose.                    *)
(***************************************************************************)
Eng ==
  [isListening |-> isListening,
   isRecordingCommand |-> isRecordingCommand,
   recordingProcess |-> recordingProcess,
   audioBuffer |-> audioBuffer,
   silenceStartTime |-> silenceStartTime,
   nproc |-> nproc,
   alive |-> alive,
   out |-> <<>>,
   sounds |-> <<>>,
   fed |-> FALSE,
   commands |-> commands,
   cancelled |-> cancelled,
   epoch |-> epoch,
   dirty |-> dirty,
   threw |-> FALSE]

Ev(name, payload) == [name |-> name, payload |-> payload]

\* EventEmitter.emit, before the listeners run
emit(e, name, payload) == [e EXCEPT !.out = Append(@, Ev(name, payload))]

\* playSound(name) whatever the toggle says
cue_ignoreToggle(e, name) == [e EXCEPT !.sounds = Append(@, name)]

\* playSound(name) when config.playSound
cue(e, name) ==
  IF config.playSound THEN [e EXCEPT !.sounds = Append(@, name)] ELSE e

(***************************************************************************)
(* SherpaOnnxDetector.  inp carries what the environment decides while a   *)
(* chunk is handled: ex, whether a spotter call raises; kw, the spotter's   *)
(* result; rW, rL, rC, what the listeners of wakeword, listening and       *)
(* command do.                                                             *)
(***************************************************************************)

\* stop() that hands the partial recording downstream
stop_emitPartial(e) ==
  LET e1 == [e EXCEPT !.isListening = FALSE,
                      !.isRecordingCommand = FALSE,
                      !.recordingProcess = NoHandle,
                      !.alive = @ \ {e.recordingProcess},
                      !.cancelled = IF e.isRecordingCommand
                                      THEN @ \cup IdSet(e.audioBuffer)
                                      ELSE @,
                      !.commands = IF e.isRecordingCommand
                                     THEN Append(@, [ep |-> e.epoch,
                                                     payload |-> e.audioBuffer])
                                     ELSE @]
      e2 == IF e.isRecordingCommand
              THEN emit(e1, "command", e.audioBuffer)
              ELSE e1
  IN  emit(e2, "stopped", <<>>)

\* stop(): the flags are reset and the capture process is killed; audioBuffer
\* and silenceStartTime are not touched
stop(e) ==
  emit([e EXCEPT !.isListening = FALSE,
                 !.isRecordingCommand = FALSE,
                 !.recordingProcess = NoHandle,
                 !.alive = @ \ {e.recordingProcess},
                 !.cancelled = IF e.isRecordingCommand
                                 THEN @ \cup IdSet(e.audioBuffer)
                                 ELSE @],
       "stopped", <<>>)

\* startAudioCapture(): spawn rec / arecord and subscribe to its stdout, or
\* return without a process when the capture tool or platform is unavailable
startAudioCapture(e, cap) ==
  IF cap = "ok"
    THEN [e EXCEPT !.nproc = @ + 1,
                   !.recordingProcess = e.nproc + 1,
                   !.alive = @ \cup {e.nproc + 1}]
    ELSE e

\* start() without the isListening guard
start_noGuard(e, cap) ==
  IF kws = NoHandle \/ stream = NoHandle
    THEN e
    ELSE emit(startAudioCapture([e EXCEPT !.isListening = TRUE], cap),
              "started", <<>>)

\* start() without the test of the spotter and its stream
start_noSpotterGuard(e, cap) ==
  IF e.isListening
    THEN e
    ELSE emit(startAudioCapture([e EXCEPT !.isListening = TRUE], cap),
              "started", <<>>)

start(e, cap) ==
  IF kws = NoHandle \/ stream = NoHandle
    THEN e
    ELSE IF e.isListening
      THEN e
      ELSE emit(startAudioCapture([e EXCEPT !.isListening = TRUE], cap),
                "started", <<>>)

\* a listener, run synchronously by emit: it returns, or calls stop()
react(e, r) == IF r = "stop" THEN stop(e) ELSE e

\* finishRecording(): the payload of command is Buffer.concat(audioBuffer)
finishRecording(e, inp) ==
  LET e1 == cue([e EXCEPT !.isRecordingCommand = FALSE,
                          !.silenceStartTime = NULL], "Pop")
      e2 == [e1 EXCEPT !.audioBuffer = <<>>,
                       !.commands = Append(@, [ep |-> e.epoch,
                                               payload |-> e.audioBuffer])]
  IN  react(emit(e2, "command", e.audioBuffer), inp.rC)

\* a cap of twice maxDuration
OverMaxDuration_twice(buf) ==
  TotalBytes(buf) * 1000 > 2 * config.maxDuration * 2 * config.sampleRate

\* totalDuration > this.recordingConfig.maxDuration, with
\* totalDuration = bytes / 2 / sampleRate * 1000
OverMaxDuration(buf) ==
  TotalBytes(buf) * 1000 > config.maxDuration * 2 * config.sampleRate

\* checkSilenceAndFinish() without the duration cap
checkSilenceAndFinish_noCap(e, chunk, t, inp) ==
  LET silent == calculateAmplitude(chunk) < EffSilenceAmplitude
      fire == /\ silent
              /\ ~Falsy(e.silenceStartTime)
              /\ t - e.silenceStartTime > config.silenceThreshold
      e1 == IF silent
              THEN IF Falsy(e.silenceStartTime)
                     THEN [e EXCEPT !.silenceStartTime = t]
                     ELSE e
              ELSE [e EXCEPT !.silenceStartTime = NULL]
  IN  IF fire THEN finishRecording(e, inp) ELSE e1

\* checkSilenceAndFinish() that ends once the silence has lasted the threshold
checkSilenceAndFinish_atThreshold(e, chunk, t, inp) ==
  LET silent == calculateAmplitude(chunk) < EffSilenceAmplitude
      fire == /\ silent
              /\ ~Falsy(e.silenceStartTime)
              /\ t - e.silenceStartTime >= config.silenceThreshold
      e1 == IF silent
              THEN IF Falsy(e.silenceStartTime)
                     THEN [e EXCEPT !.silenceStartTime = t]
                     ELSE e
              ELSE [e EXCEPT !.silenceStartTime = NULL]
  IN  IF fire
        THEN finishRecording(e, inp)
        ELSE IF OverMaxDuration(e1.audioBuffer)
          THEN finishRecording(e1, inp)
          ELSE e1

\* checkSilenceAndFinish() that cuts off once the cap is reached
checkSilenceAndFinish_atCap(e, chunk, t, inp) ==
  LET silent == calculateAmplitude(chunk) < EffSilenceAmplitude
      fire == /\ silent
              /\ ~Falsy(e.silenceStartTime)
              /\ t - e.silenceStartTime > config.silenceThreshold
      e1 == IF silent
              THEN IF Falsy(e.silenceStartTime)
                     THEN [e EXCEPT !.silenceStartTime = t]
                     ELSE e
              ELSE [e EXCEPT !.silenceStartTime = NULL]
  IN  IF fire
        THEN finishRecording(e, inp)
        ELSE IF TotalBytes(e1.audioBuffer) * 1000
                  >= config.maxDuration * 2 * config.sampleRate
          THEN finishRecording(e1, inp)
          ELSE e1

checkSilenceAndFinish(e, chunk, t, inp) ==
  LET silent == calculateAmplitude(chunk) < EffSilenceAmplitude
      fire == /\ silent
              /\ ~Falsy(e.silenceStartTime)
              /\ t - e.silenceStartTime > config.silenceThreshold
      e1 == IF silent
              THEN IF Falsy(e.silenceStartTime)
                     THEN [e EXCEPT !.silenceStartTime = t]
                     ELSE e
              ELSE [e EXCEPT !.silenceStartTime = NULL]
  IN  IF fire
        THEN finishRecording(e, inp)
        ELSE IF OverMaxDuration(e1.audioBuffer)
          THEN finishRecording(e1, inp)
          ELSE e1

\* startCommandRecording() that keeps what the buffer held
startCommandRecording_keepBuffer(e, inp) ==
  IF e.isRecordingCommand
    THEN e
    ELSE react(emit([e EXCEPT !.isRecordingCommand = TRUE,
                              !.silenceStartTime = NULL,
                              !.epoch = @ + 1],
                    "listening", <<>>),
               inp.rL)

\* startCommandRecording() that keeps the timestamp of the silent run
startCommandRecording_keepSilence(e, inp) ==
  IF e.isRecordingCommand
    THEN e
    ELSE react(emit([e EXCEPT !.isRecordingCommand = TRUE,
                              !.audioBuffer = <<>>,
                              !.epoch = @ + 1],
                    "listening", <<>>),
               inp.rL)

startCommandRecording(e, inp) ==
  IF e.isRecordingCommand
    THEN e
    ELSE react(emit([e EXCEPT !.isRecordingCommand = TRUE,
                              !.audioBuffer = <<>>,
                              !.silenceStartTime = NULL,
                              !.epoch = @ + 1],
                    "listening", <<>>),
               inp.rL)

\* processAudioForKeyword(): feed the chunk, drain the decode steps, read the
\* result; on a keyword play the cue, emit wakeword, start the recording.
\* Nothing catches what a spotter call raises, and nothing resets the stream.
processAudioForKeyword(e, chunk, inp) ==
  LET e0 == [e EXCEPT !.fed = TRUE]
  IN  IF inp.ex # "none"
        THEN [e0 EXCEPT !.threw = TRUE]
        ELSE IF KeywordDetected(inp.kw)
          THEN startCommandRecording(
                 react(emit(cue([e0 EXCEPT !.dirty = TRUE], "Ping"),
                            "wakeword", <<>>),
                       inp.rW),
                 inp)
          ELSE e0

\* the stdout data handler without the isListening test
dataHandler_noListeningGuard(e, chunk, t, inp) ==
  IF kws = NoHandle \/ stream = NoHandle
    THEN e
    ELSE IF e.isRecordingCommand
      THEN checkSilenceAndFinish([e EXCEPT !.audioBuffer = Append(@, chunk)],
                                 chunk, t, inp)
      ELSE processAudioForKeyword(e, chunk, inp)

\* the stdout data handler that feeds the spotter while Recording as well
dataHandler_bothDuties(e, chunk, t, inp) ==
  IF ~e.isListening \/ kws = NoHandle \/ stream = NoHandle
    THEN e
    ELSE IF e.isRecordingCommand
      THEN [checkSilenceAndFinish([e EXCEPT !.audioBuffer = Append(@, chunk)],
                                  chunk, t, inp) EXCEPT !.fed = TRUE]
      ELSE processAudioForKeyword(e, chunk, inp)

\* recordingProcess.stdout.on('data', ...)
dataHandler(e, chunk, t, inp) ==
  IF ~e.isListening \/ kws = NoHandle \/ stream = NoHandle
    THEN e
    ELSE IF e.isRecordingCommand
      THEN checkSilenceAndFinish([e EXCEPT !.audioBuffer = Append(@, chunk)],
                                 chunk, t, inp)
      ELSE processAudioForKeyword(e, chunk, inp)

(***************************************************************************)
(* State machine                                                           *)
(***************************************************************************)
NoChunk == [id |-> 0, len |-> 0, val |-> 0]

NoKeyword == [present |-> FALSE, text |-> <<>>]

\* an operation, with what the environment decided during it (chunk steps)
Op(name) ==
  [op |-> name, stale |-> FALSE, chunk |-> NoChunk, kw |-> NoKeyword,
   rW |-> "none", rL |-> "none", rC |-> "none", ex |-> "none",
   threw |-> FALSE]

Emitted(o, name) == \E i \in 1..Len(o) : o[i].name = name

CountCue(s, name) == Cardinality({i \in 1..Len(s) : s[i] = name})

CountEv(o, name) == Cardinality({i \in 1..Len(o) : o[i].name = name})

Apply(r) ==
  /\ isListening' = r.isListening
  /\ isRecordingCommand' = r.isRecordingCommand
  /\ recordingProcess' = r.recordingProcess
  /\ audioBuffer' = r.audioBuffer
  /\ silenceStartTime' = r.silenceStartTime
  /\ nproc' = r.nproc
  /\ alive' = r.alive
  /\ out' = r.out
  /\ sounds' = r.sounds
  /\ fed' = r.fed
  /\ commands' = r.commands
  /\ cancelled' = r.cancelled
  /\ epoch' = r.epoch

\* the engine after construction
InitEngine ==
  /\ config \in Configs
  /\ kws = NoHandle
  /\ stream = NoHandle
  /\ isListening = FALSE
  /\ isRecordingCommand = FALSE
  /\ recordingProcess = NoHandle
  /\ audioBuffer = <<>>
  /\ silenceStartTime = NULL
  /\ nproc = 0
  /\ alive = {}
  /\ now = 1
  /\ nchunks = 0
  /\ out = <<>>
  /\ sounds = <<>>
  /\ fed = FALSE
  /\ commands = <<>>
  /\ cancelled = {}
  /\ epoch = 0
  /\ epochOf = <<>>
  /\ last = Op("new")
  /\ dirty = FALSE
  /\ ninit = 0
  /\ madeStreams = {}
  /\ freedKws = {}
  /\ freedStreams = {}
  /\ refreed = FALSE

\* no silence detector state is in use
SdIdle ==
  /\ sdState = createSilenceDetectorState
  /\ sdInit = createSilenceDetectorState
  /\ sdAmp = DefaultSilenceAmplitude
  /\ sdDur = 300
  /\ sdNow = SdClock
  /\ sdShouldEnd = FALSE
  /\ sdStep = 0
  /\ sdTrace = <<>>

\* no call of saveToWav or bufferToFloat32 is made
NotCalled == [done |-> FALSE, threw |-> FALSE]

AudioIdle ==
  /\ auBuffer = <<>>
  /\ auRate = 16000
  /\ auChannels = 1
  /\ auFile = NotCalled
  /\ auFloats = NotCalled
  /\ auRead = NotCalled

\* no command event was handled
Handlers == 1..MaxHandlers

NoPath == [prefix |-> "", time |-> 0]

HandlerIdle ==
  /\ hPc = [h \in Handlers |-> "idle"]
  /\ hPath = [h \in Handlers |-> NoPath]
  /\ hHow = [h \in Handlers |-> "none"]
  /\ hEscaped = [h \in Handlers |-> FALSE]
  /\ files = {}
  /\ hClock = SdClock

\* no chunk was fed to the spotter
SpotterIdle ==
  /\ kPc = "idle"
  /\ kPending = 0
  /\ kDue = 0
  /\ kAccepts = 0
  /\ kDecodes = 0
  /\ kReads = 0
  /\ kReadWhileReady = FALSE
  /\ kThrew = FALSE
  /\ kFed = 0

\* no daemon runs and daemon.pid does not exist
DaemonIdle ==
  /\ pidFile = NoPid
  /\ procs = {}
  /\ wrote = {}
  /\ nspawn = 0
  /\ ncli = 0
  /\ restarting = 0

\* a JavaScript value: t is its typeof ("null" for null), s its text if it
\* is a string, a boolean or a number that is not finite, n its value if it
\* is a finite number
Undefined == [t |-> "undefined", s |-> "", n |-> 0]

Null == [t |-> "null", s |-> "", n |-> 0]

Bool(b) == [t |-> "boolean", s |-> IF b THEN "true" ELSE "false", n |-> 0]

Str(x) == [t |-> "string", s |-> x, n |-> 0]

Num(x) == [t |-> "number", s |-> "", n |-> x]

Infinity == [t |-> "number", s |-> "Infinity", n |-> 0]

NaN == [t |-> "number", s |-> "NaN", n |-> 0]

NoConfig == [k \in CfgKeys |-> Null]

\* no configuration is loaded, config.json does not exist
ConfigIdle ==
  /\ cachedConfig = NoConfig
  /\ cfgFile = NoConfig
  /\ cfgSet = [k \in CfgKeys |-> Undefined]
  /\ cfgGot = [key |-> "", val |-> Undefined]

SideIdle == AudioIdle /\ HandlerIdle /\ SpotterIdle /\ DaemonIdle /\ ConfigIdle

\* the state after construction
Init == InitEngine /\ SdIdle /\ SideIdle

\* initialize(): the model is missing (return), or the spotter and its stream
\* are created, or the import / the constructor throws, or createStream throws
\* after this.kws was assigned; the catch block logs and rethrows.  The
\* handles held before are overwritten, not freed.  h names the spotter
\* constructed by this call.
InitializeAs(outcome, h) ==
  LET made == outcome \in {"ok", "throwStream"}
  IN  /\ outcome \in InitOutcomes
      /\ ninit' = IF made THEN h ELSE ninit
      /\ kws' = IF made THEN h ELSE kws
      /\ stream' = IF outcome = "ok" THEN h ELSE stream
      /\ madeStreams' = IF outcome = "ok"
                          THEN madeStreams \cup {h}
                          ELSE madeStreams
      /\ freedKws' = IF made THEN freedKws \ {h} ELSE freedKws
      /\ freedStreams' = IF made THEN freedStreams \ {h} ELSE freedStreams
      /\ dirty' = IF outcome = "ok" THEN FALSE ELSE dirty
      /\ out' = <<>>
      /\ sounds' = <<>>
      /\ fed' = FALSE
      /\ last' = [Op("initialize") EXCEPT
                    !.threw = outcome \in {"throwCtor", "throwStream"}]
      /\ UNCHANGED <<config, isListening, isRecordingCommand, recordingProcess,
                     audioBuffer, silenceStartTime, nproc, alive, now, nchunks,
                     commands, cancelled, epoch, epochOf, refreed, sdVars, sideVars>>

\* initialize(), any number of times; the spotters are not told apart
Initialize(outcome) == InitializeAs(outcome, 1)

Start(cap) ==
  LET r == start(Eng, cap)
  IN  /\ r.nproc <= MaxProcs
      /\ Apply(r)
      /\ last' = Op("start")
      /\ UNCHANGED <<config, kws, stream, now, nchunks, epochOf, dirty, ninit,
                     madeStreams, freedKws, freedStreams, refreed, sdVars, sideVars>>

Stop ==
  /\ Apply(stop(Eng))
  /\ last' = Op("stop")
  /\ UNCHANGED <<config, kws, stream, now, nchunks, epochOf, dirty, ninit,
                 madeStreams, freedKws, freedStreams, refreed, sdVars, sideVars>>

\* cleanup(): stop(), then free and null the stream and the spotter; what a
\* free() raises is swallowed
Cleanup ==
  /\ Apply(stop(Eng))
  /\ freedStreams' = IF stream # NoHandle
                       THEN freedStreams \cup {stream}
                       ELSE freedStreams
  /\ freedKws' = IF kws # NoHandle THEN freedKws \cup {kws} ELSE freedKws
  /\ refreed' = (refreed \/ stream \in freedStreams \/ kws \in freedKws)
  /\ stream' = NoHandle
  /\ kws' = NoHandle
  /\ dirty' = FALSE
  /\ last' = Op("cleanup")
  /\ UNCHANGED <<config, now, nchunks, epochOf, ninit, madeStreams, sdVars, sideVars>>

\* recordingProcess.on('error', ...) of capture process p: the failure is
\* written to the console
CaptureError(p) ==
  /\ p \in 1..nproc
  /\ out' = <<>>
  /\ sounds' = <<>>
  /\ fed' = FALSE
  /\ last' = Op("captureError")
  /\ UNCHANGED <<config, kws, stream, isListening, isRecordingCommand,
                 recordingProcess, audioBuffer, silenceStartTime, nproc, alive,
                 now, nchunks, commands, cancelled, epoch, epochOf, dirty,
                 ninit, madeStreams, freedKws, freedStreams, refreed, sdVars, sideVars>>

\* a data event of the stdout of capture process p (live, or killed with
\* data still queued), dt ms after the previous one
Deliver(p, len, val, dt, ex, kw, rW, rL, rC) ==
  LET chunk == [id |-> nchunks + 1, len |-> len, val |-> val]
      t == now + dt
      inp == [ex |-> ex, kw |-> kw, rW |-> rW, rL |-> rL, rC |-> rC]
      r == dataHandler(Eng, chunk, t, inp)
      passes == isListening /\ kws # NoHandle /\ stream # NoHandle
      nW == IF Emitted(r.out, "wakeword") THEN rW ELSE "none"
      nL == IF Emitted(r.out, "listening") THEN rL ELSE "none"
      nC == IF Emitted(r.out, "command") THEN rC ELSE "none"
  IN  /\ nchunks < MaxChunks
      /\ p \in 1..nproc
      /\ Apply(r)
      /\ now' = t
      /\ nchunks' = nchunks + 1
      /\ epochOf' = Append(epochOf,
                           IF passes /\ isRecordingCommand THEN epoch ELSE 0)
      /\ last' = [Op("chunk") EXCEPT !.stale = p \notin alive,
                                       !.chunk = chunk,
                                       !.kw = IF r.fed THEN kw ELSE NoKeyword,
                                       !.rW = nW, !.rL = nL, !.rC = nC,
                                       !.ex = IF r.fed THEN ex ELSE "none",
                                       !.threw = r.threw]
      /\ dirty' = r.dirty
      /\ UNCHANGED <<config, kws, stream, ninit, madeStreams, freedKws,
                     freedStreams, refreed, sdVars, sideVars>>

\* A data event with every input the handler can read.  The inputs it does
\* not read are not enumerated: the spotter's result is read only by a chunk
\* handled in Idle; the samples of such a chunk are read by the spotter alone,
\* whose answer kw stands for them, and the time of its arrival is read by
\* nobody; a chunk dropped by the handler's guard is not read at all; when a
\* spotter call raises, no result is read.  A listener runs only when its
\* event is emitted.
DeliverAny ==
  \E p \in 1..nproc :
    LET passes == isListening /\ kws # NoHandle /\ stream # NoHandle
        idle == passes /\ ~isRecordingCommand
        rec == passes /\ isRecordingCommand
    IN  \E len \in IF rec THEN ChunkLens ELSE {16000},
           val \in IF rec THEN ChunkVals ELSE {500},
           dt \in IF rec THEN Deltas ELSE {300},
           ex \in IF idle THEN SpotterFaults ELSE {"none"} :
          \E kw \in IF idle /\ ex = "none"
                       THEN KeywordResults
                       ELSE {NoKeyword} :
            \E rW \in IF idle /\ KeywordDetected(kw)
                         THEN Reactions
                         ELSE {"none"},
               rL \in IF idle /\ KeywordDetected(kw)
                         THEN Reactions
                         ELSE {"none"},
               rC \in IF rec THEN Reactions ELSE {"none"} :
              Deliver(p, len, val, dt, ex, kw, rW, rL, rC)

Next ==
  \/ \E outcome \in InitOutcomes : Initialize(outcome)
  \/ \E cap \in CaptureOutcomes : Start(cap)
  \/ Stop
  \/ Cleanup
  \/ \E p \in 1..nproc : CaptureError(p)
  \/ DeliverAny

Spec == Init /\ [][Next]_vars

\* The engine with chunks that keep arriving: the capture process writes to
\* its stdout as long as it runs, and Node delivers what was written.  The
\* spotter can be built and the capture tool is there; stop() is called by
\* listeners only.
NextArrival ==
  \/ Initialize("ok")
  \/ Start("ok")
  \/ DeliverAny

SpecArrival == Init /\ [][NextArrival]_vars /\ WF_vars(DeliverAny)

(***************************************************************************)
(* The lifecycle calls alone: initialize(), start(), stop() and cleanup()  *)
(* in any order, with every spotter constructed given a name of its own;   *)
(* up to MaxInit of them are constructed.                                  *)
(***************************************************************************)
Reinitialize(outcome) ==
  /\ outcome \in {"ok", "throwStream"} => ninit < MaxInit
  /\ InitializeAs(outcome, ninit + 1)

NextLife ==
  \/ \E outcome \in InitOutcomes : Reinitialize(outcome)
  \/ \E cap \in CaptureOutcomes : Start(cap)
  \/ Stop
  \/ Cleanup

SpecLife == Init /\ [][NextLife]_vars

(***************************************************************************)
(* saveToWav() and bufferToFloat32() on their own: each is applied once to *)
(* a buffer of up to MaxPayload bytes, or to the two bytes of any one      *)
(* 16-bit sample.                                                          *)
(***************************************************************************)
RECURSIVE Buffers(_)
Buffers(n) ==
  IF n = 0
    THEN {<<>>}
    ELSE LET shorter == Buffers(n - 1)
         IN  shorter \cup {Append(b, x) : b \in shorter, x \in PayloadBytes}

\* the little-endian bytes of the 16-bit sample v
SampleBytes(v) == UInt16LE((v + 2 * Int16Scale) % (2 * Int16Scale))

InitAudio ==
  /\ InitEngine
  /\ SdIdle
  /\ \/ /\ auBuffer \in Buffers(MaxPayload)
        /\ auRate \in SampleRates
        /\ auChannels \in ChannelCounts
     \/ /\ auBuffer \in {SampleBytes(v) : v \in Int16Min..Int16Max}
        /\ auRate = config.sampleRate
        /\ auChannels = 1
  /\ auFile = NotCalled
  /\ auFloats = NotCalled
  /\ auRead = NotCalled
  /\ HandlerIdle
  /\ SpotterIdle
  /\ DaemonIdle
  /\ ConfigIdle

SaveToWav ==
  /\ ~auFile.done
  /\ auFile' = saveToWav(auBuffer, auRate, auChannels)
  /\ UNCHANGED <<auBuffer, auRate, auChannels, auFloats, auRead, engineVars, sdVars, handlerVars, spotterVars, daemonVars, cfgVars>>

BufferToFloat32 ==
  /\ ~auFloats.done
  /\ auFloats' = bufferToFloat32(auBuffer)
  /\ UNCHANGED <<auBuffer, auRate, auChannels, auFile, auRead, engineVars, sdVars, handlerVars, spotterVars, daemonVars, cfgVars>>

\* the transcription stage reads the file that was written
ReadWavFile ==
  /\ auFile.done
  /\ ~auFile.threw
  /\ ~auRead.done
  /\ auRead' = readWavFile(auFile.bytes)
  /\ UNCHANGED <<auBuffer, auRate, auChannels, auFile, auFloats, engineVars, sdVars, handlerVars, spotterVars, daemonVars, cfgVars>>

NextAudio == SaveToWav \/ BufferToFloat32 \/ ReadWavFile

SpecAudio == InitAudio /\ [][NextAudio]_vars

(***************************************************************************)
(* The listener of command in index.ts: an async function, so a run stops  *)
(* at each await and other runs go on meanwhile; what is between two       *)
(* awaits is one step.  Awaited promises settle, and unlinkSync removes a  *)
(* file that exists.                                                       *)
(***************************************************************************)
\* createTempAudioPath(prefix) at time t
createTempAudioPath(prefix, t) == [prefix |-> prefix, time |-> t]

\* safeDeleteFile(path): the files left
safeDeleteFile(fs, path) == fs \ {path}

\* a listener without the finally block: the file is deleted at the end of
\* the try block, and what is thrown is rethrown
listenerExit_noFinally(fs, path, failed) ==
  IF failed
    THEN [files |-> fs, escaped |-> TRUE]
    ELSE [files |-> safeDeleteFile(fs, path), escaped |-> FALSE]

\* the way out of the listener: catch logs what was thrown, finally deletes
\* the file
listenerExit(fs, path, failed) ==
  [files |-> safeDeleteFile(fs, path), escaped |-> FALSE]

\* leave run h through catch (failed) and finally
Exit(h, fs, failed, how) ==
  LET x == listenerExit(fs, hPath[h], failed)
  IN  /\ files' = x.files
      /\ hEscaped' = [hEscaped EXCEPT ![h] = x.escaped]
      /\ hPc' = [hPc EXCEPT ![h] = "done"]
      /\ hHow' = [hHow EXCEPT ![h] = how]

\* a command event, dt ms after the previous one: the path is made, the
\* file is saved and transcribe() is called; the run stops at the await, or
\* leaves at once when saveToWav throws
CommandListener(h, dt, save) ==
  LET t == hClock + dt
      tempPath == createTempAudioPath("cvl", t)
      fs == IF save = "throwNoFile" THEN files ELSE files \cup {tempPath}
  IN  /\ hPc[h] = "idle"
      /\ \A g \in Handlers : g < h => hPc[g] # "idle"
      /\ hClock' = t
      /\ hPath' = [hPath EXCEPT ![h] = tempPath]
      /\ IF save = "ok"
           THEN /\ files' = fs
                /\ hPc' = [hPc EXCEPT ![h] = "transcribing"]
                /\ UNCHANGED <<hHow, hEscaped>>
           ELSE LET x == listenerExit(fs, tempPath, TRUE)
                IN  /\ files' = x.files
                    /\ hEscaped' = [hEscaped EXCEPT ![h] = x.escaped]
                    /\ hPc' = [hPc EXCEPT ![h] = "done"]
                    /\ hHow' = [hHow EXCEPT ![h] = "saveThrew"]
      /\ UNCHANGED <<engineVars, sdVars, audioVars, spotterVars, daemonVars, cfgVars>>

\* the promise of transcribe() settles: a rejection goes to catch; a text
\* that is empty after trim() is logged; any other text is sent, and the run
\* stops at the second await
TranscribeSettles(h, res) ==
  /\ hPc[h] = "transcribing"
  /\ CASE res = "throw" -> Exit(h, files, TRUE, "transcribeThrew")
       [] res \in {"empty", "blank"} -> Exit(h, files, FALSE, "noSpeech")
       [] res = "text" -> /\ hPc' = [hPc EXCEPT ![h] = "sending"]
                          /\ UNCHANGED <<files, hEscaped, hHow>>
  /\ UNCHANGED <<hPath, hClock, engineVars, sdVars, audioVars, spotterVars, daemonVars, cfgVars>>

\* the promise of sendToClaudeCode() settles
SendSettles(h, res) ==
  /\ hPc[h] = "sending"
  /\ IF res = "throw"
       THEN Exit(h, files, TRUE, "sendThrew")
       ELSE Exit(h, files, FALSE, "sent")
  /\ UNCHANGED <<hPath, hClock, engineVars, sdVars, audioVars, spotterVars, daemonVars, cfgVars>>

Settles(h) ==
  \/ \E res \in TranscribeOutcomes : TranscribeSettles(h, res)
  \/ \E res \in SendOutcomes : SendSettles(h, res)

NextCommand ==
  \/ \E h \in Handlers, dt \in PathDeltas, save \in SaveOutcomes :
       CommandListener(h, dt, save)
  \/ \E h \in Handlers : Settles(h)

InitCommand == InitEngine /\ SdIdle /\ SideIdle

SpecCommand ==
  /\ InitCommand
  /\ [][NextCommand]_vars
  /\ \A h \in Handlers : WF_vars(Settles(h))

(***************************************************************************)
(* processAudioForKeyword() call by call, on an engine that is listening   *)
(* and Idle: the chunk is fed, the loop asks isReady and decodes, the      *)
(* result is read.  The spotter's stream has a number of decode steps      *)
(* ready; a chunk adds some, a decode takes one away.  The function is     *)
(* synchronous, so once entered it runs on.                                *)
(***************************************************************************)
\* a loop that reads the result without decoding
whileReady_skip(ready) == "getResult"

\* while (this.kws.isReady(this.stream)): the call that follows the test
whileReady(ready) == IF ready THEN "decode" ELSE "getResult"

\* this.stream.acceptWaveform(...) with a chunk that makes frames more decode
\* steps ready
AcceptWaveform(frames) ==
  /\ kPc = "idle"
  /\ kFed < MaxFed
  /\ kFed' = kFed + 1
  /\ kPending' = kPending + frames
  /\ kDue' = kPending + frames
  /\ kAccepts' = 1
  /\ kDecodes' = 0
  /\ kReads' = 0
  /\ kReadWhileReady' = FALSE
  /\ kThrew' = FALSE
  /\ kPc' = "isReady"
  /\ UNCHANGED <<engineVars, sdVars, audioVars, handlerVars, daemonVars, cfgVars>>

\* this.kws.isReady(this.stream)
IsReady ==
  /\ kPc = "isReady"
  /\ kPc' = whileReady(kPending > 0)
  /\ UNCHANGED <<kPending, kDue, kAccepts, kDecodes, kReads, kReadWhileReady, kThrew, kFed, engineVars, sdVars, audioVars, handlerVars, daemonVars, cfgVars>>

\* this.kws.decode(this.stream): one step is decoded, or the call raises and
\* the function is left with the steps still ready
Decode(ex) ==
  /\ kPc = "decode"
  /\ kDecodes' = kDecodes + 1
  /\ IF ex = "none"
       THEN /\ kPending' = kPending - 1
            /\ kPc' = "isReady"
            /\ UNCHANGED kThrew
       ELSE /\ kThrew' = TRUE
            /\ kPc' = "idle"
            /\ UNCHANGED kPending
  /\ UNCHANGED <<kDue, kAccepts, kReads, kReadWhileReady, kFed, engineVars, sdVars, audioVars, handlerVars, daemonVars, cfgVars>>

\* this.kws.getResult(this.stream); what follows is the engine's business
GetResult ==
  /\ kPc = "getResult"
  /\ kReads' = kReads + 1
  /\ kReadWhileReady' = (kPending > 0)
  /\ kPc' = "idle"
  /\ UNCHANGED <<kPending, kDue, kAccepts, kDecodes, kThrew, kFed, engineVars, sdVars, audioVars, handlerVars, daemonVars, cfgVars>>

RunOn == IsReady \/ (\E ex \in SpotterFaults : Decode(ex)) \/ GetResult

NextSpotter ==
  \/ \E frames \in 0..MaxFrames : AcceptWaveform(frames)
  \/ IsReady
  \/ \E ex \in SpotterFaults : Decode(ex)
  \/ GetResult

InitSpotter == InitEngine /\ SdIdle /\ SideIdle

SpecSpotter == InitSpotter /\ [][NextSpotter]_vars /\ WF_vars(RunOn)

(***************************************************************************)
(* cli.ts: start, stop and restart, each run in a process of its own, and  *)
(* the daemons they spawn.  A daemon writes daemon.pid once it has booted  *)
(* ('start -f' with CVL_DAEMON=1).  start checks and spawns without a      *)
(* pause; restart waits 500 ms between killing and spawning.               *)
(***************************************************************************)
\* isRunning(): whether daemon.pid names a live process; a stale file is
\* removed
isRunning ==
  IF pidFile = NoPid
    THEN [running |-> FALSE, pidFile |-> NoPid]
    ELSE IF pidFile \in procs
      THEN [running |-> TRUE, pidFile |-> pidFile]
      ELSE [running |-> FALSE, pidFile |-> NoPid]

\* spawn('node', [scriptPath, 'start', '-f'], { detached: true, ... })
SpawnDaemon ==
  /\ nspawn < MaxDaemons
  /\ nspawn' = nspawn + 1
  /\ procs' = procs \cup {nspawn + 1}

\* 'start' in background mode
CliStart ==
  /\ ncli < MaxCli
  /\ ncli' = ncli + 1
  /\ pidFile' = isRunning.pidFile
  /\ IF isRunning.running
       THEN UNCHANGED <<procs, nspawn>>
       ELSE SpawnDaemon
  /\ UNCHANGED <<wrote, restarting, engineVars, sdVars, audioVars, handlerVars, spotterVars, cfgVars>>

\* the daemon d has booted: fs.writeFileSync(getPidFile(), String(process.pid))
DaemonWritesPid(d) ==
  /\ d \in procs
  /\ d \notin wrote
  /\ wrote' = wrote \cup {d}
  /\ pidFile' = d
  /\ UNCHANGED <<procs, nspawn, ncli, restarting, engineVars, sdVars, audioVars, handlerVars, spotterVars, cfgVars>>

\* the daemon d ends by itself (startListener failed: process.exit(1)); it
\* leaves daemon.pid as it is
DaemonExits(d) ==
  /\ d \in procs
  /\ procs' = procs \ {d}
  /\ UNCHANGED <<pidFile, wrote, nspawn, ncli, restarting, engineVars, sdVars, audioVars, handlerVars, spotterVars, cfgVars>>

\* 'stop': the process daemon.pid names is sent SIGTERM, the file is removed
CliStop ==
  /\ ncli < MaxCli
  /\ ncli' = ncli + 1
  /\ procs' = procs \ {pidFile}
  /\ pidFile' = NoPid
  /\ UNCHANGED <<wrote, nspawn, restarting, engineVars, sdVars, audioVars, handlerVars, spotterVars, cfgVars>>

\* 'restart' up to its first pause: as stop
CliRestartKills ==
  /\ ncli < MaxCli
  /\ ncli' = ncli + 1
  /\ procs' = procs \ {pidFile}
  /\ pidFile' = NoPid
  /\ restarting' = restarting + 1
  /\ UNCHANGED <<wrote, nspawn, engineVars, sdVars, audioVars, handlerVars, spotterVars, cfgVars>>

\* 'restart' after the pause: it spawns without asking isRunning()
CliRestartSpawns ==
  /\ restarting > 0
  /\ restarting' = restarting - 1
  /\ SpawnDaemon
  /\ UNCHANGED <<pidFile, wrote, ncli, engineVars, sdVars, audioVars, handlerVars, spotterVars, cfgVars>>

NextDaemon ==
  \/ CliStart
  \/ CliStop
  \/ CliRestartKills
  \/ CliRestartSpawns
  \/ \E d \in 1..nspawn : DaemonWritesPid(d)
  \/ \E d \in 1..nspawn : DaemonExits(d)

InitDaemon == InitEngine /\ SdIdle /\ SideIdle

SpecDaemon == InitDaemon /\ [][NextDaemon]_vars

(***************************************************************************)
(* config.ts.  A configuration is the function from key paths to values;   *)
(* a path the object does not have maps to Undefined.  config.json holds   *)
(* the JSON text of one, which is modelled as the values JSON.parse gives  *)
(* back for it.                                                            *)
(***************************************************************************)
\* Number(str), for the strings of CfgInputs
NumberOf(str) ==
  CASE str = "44100" -> Num(44100)
    [] str = "" -> Num(0)
    [] str = "Infinity" -> Infinity
    [] OTHER -> NaN

\* isNaN(x)
isNaN(x) == x = NaN

\* str.trim(), for the strings of CfgInputs
trim(str) == str

\* the value setConfigValue stores for the string value
coerce(value) ==
  IF value = "true" THEN Bool(TRUE)
  ELSE IF value = "false" THEN Bool(FALSE)
  ELSE IF ~isNaN(NumberOf(value)) /\ trim(value) # "" THEN NumberOf(value)
  ELSE Str(value)

\* JSON.parse(JSON.stringify(x)) of one value: a number that is not finite
\* is written as null; a property that is undefined is left out
JsonValue(x) ==
  IF x.t = "number" /\ x.s # "" THEN Null ELSE x

\* JSON.stringify(config, null, 2), as JSON.parse reads it back
JsonStringify(cfg) == [k \in CfgKeys |-> JsonValue(cfg[k])]

getDefaultConfig ==
  [k \in CfgKeys |->
     CASE k = "debug" -> Bool(FALSE)
       [] k = "stt.language" -> Str("en")
       [] k = "recording.sampleRate" -> Num(16000)
       [] OTHER -> Undefined]

\* deepMerge(target, source): every property of source that is not
\* undefined wins
deepMerge(target, source) ==
  [k \in CfgKeys |-> IF source[k] # Undefined THEN source[k] ELSE target[k]]

\* loadConfig(): the cache, or the defaults merged with config.json
loadConfig(cache, file) ==
  IF cache # NoConfig
    THEN cache
    ELSE IF file = NoConfig
      THEN getDefaultConfig
      ELSE deepMerge(getDefaultConfig, file)

\* getConfigValue(keyPath)
getConfigValue(cache, file, keyPath) == loadConfig(cache, file)[keyPath]

\* saveConfig(config), called with the object loadConfig() returns
saveConfig(cache, file, cfg) ==
  LET newConfig == deepMerge(cfg, cfg)
  IN  [cache |-> newConfig, file |-> JsonStringify(newConfig)]

\* setConfigValue(keyPath, value): the cached object is changed in place
\* and saved
setConfigValue(cache, file, keyPath, value) ==
  LET cfg == [loadConfig(cache, file) EXCEPT ![keyPath] = coerce(value)]
  IN  saveConfig(cfg, file, cfg)

SetConfigValue(key, value) ==
  LET r == setConfigValue(cachedConfig, cfgFile, key, value)
  IN  /\ cachedConfig' = r.cache
      /\ cfgFile' = r.file
      /\ cfgSet' = [cfgSet EXCEPT ![key] = coerce(value)]
      /\ cfgGot' = [key |-> "", val |-> Undefined]
      /\ UNCHANGED <<engineVars, sdVars, audioVars, handlerVars, spotterVars, daemonVars>>

GetConfigValue(key) ==
  /\ cfgGot' = [key |-> key, val |-> getConfigValue(cachedConfig, cfgFile, key)]
  /\ cachedConfig' = loadConfig(cachedConfig, cfgFile)
  /\ UNCHANGED <<cfgFile, cfgSet, engineVars, sdVars, audioVars, handlerVars, spotterVars, daemonVars>>

ClearConfigCache ==
  /\ cachedConfig' = NoConfig
  /\ UNCHANGED <<cfgFile, cfgSet, cfgGot, engineVars, sdVars, audioVars, handlerVars, spotterVars, daemonVars>>

ResetConfig ==
  /\ cachedConfig' = NoConfig
  /\ cfgFile' = NoConfig
  /\ cfgSet' = [k \in CfgKeys |-> Undefined]
  /\ cfgGot' = [key |-> "", val |-> Undefined]
  /\ UNCHANGED <<engineVars, sdVars, audioVars, handlerVars, spotterVars, daemonVars>>

NextConfig ==
  \/ \E key \in CfgKeys, value \in CfgInputs : SetConfigValue(key, value)
  \/ \E key \in CfgKeys : GetConfigValue(key)
  \/ ClearConfigCache
  \/ ResetConfig

InitConfig == InitEngine /\ SdIdle /\ SideIdle

SpecConfig == InitConfig /\ [][NextConfig]_vars

(***************************************************************************)
(* updateSilenceDetector() on its own: a caller holds a detector state,    *)
(* passes it with each chunk and keeps the state returned; the amplitude   *)
(* it passes is the configured one.  An engine in Recording is given the   *)
(* same chunks at the same times, starting from the same timestamp.        *)
(***************************************************************************)
InitSilence ==
  /\ InitEngine
  /\ sdState \in SdStates
  /\ sdInit = sdState
  /\ sdAmp \in SdAmplitudes
  /\ sdAmp = config.silenceAmplitude
  /\ sdDur \in SdDurations
  /\ sdNow = SdClock
  /\ sdShouldEnd = FALSE
  /\ sdStep = 0
  /\ sdTrace = <<>>
  /\ SideIdle

\* one call, dt ms after the previous one, with a chunk of len bytes of
\* sample value val.  The engine's buffer holds the chunk alone, which keeps
\* the duration cap out of reach.
SdUpdate(len, val, dt) ==
  LET buffer == [id |-> 0, len |-> len, val |-> val]
      t == sdNow + dt
      r == updateSilenceDetector(sdState, buffer, sdAmp, sdDur, t)
      twin == IF sdTrace = <<>>
                THEN sdInit.silenceStartTime
                ELSE sdTrace[Len(sdTrace)].twin
      e == checkSilenceAndFinish(
             [Eng EXCEPT !.isListening = TRUE,
                         !.isRecordingCommand = TRUE,
                         !.silenceStartTime = twin,
                         !.audioBuffer = <<buffer>>],
             buffer, t, [rC |-> "none"])
  IN  /\ sdStep < MaxUpdates
      /\ sdNow' = t
      /\ sdState' = r.state
      /\ sdShouldEnd' = r.shouldEnd
      /\ sdStep' = sdStep + 1
      /\ sdTrace' = Append(sdTrace,
                           [t |-> t, amp |-> calculateAmplitude(buffer),
                            before |-> sdState,
                            shouldEnd |-> r.shouldEnd,
                            start |-> r.state.silenceStartTime,
                            rec |-> r.state.isRecording,
                            passed |-> updateSilenceDetector_passed(
                                         sdState, buffer, sdAmp, sdDur, t),
                            silent |-> isSilent(buffer, sdAmp),
                            twin |-> e.silenceStartTime,
                            twinEnd |-> Emitted(e.out, "command")])
      /\ UNCHANGED <<sdInit, sdAmp, sdDur, engineVars, sideVars>>

\* the caller replaces its state by createSilenceDetectorState()
SdCreate ==
  /\ sdTrace # <<>>
  /\ sdState' = createSilenceDetectorState
  /\ sdInit' = createSilenceDetectorState
  /\ sdShouldEnd' = FALSE
  /\ sdTrace' = <<>>
  /\ UNCHANGED <<sdAmp, sdDur, sdNow, sdStep, engineVars, sideVars>>

NextSilence ==
  \/ \E len \in SdLens, val \in SdVals, dt \in SdDeltas :
       SdUpdate(len, val, dt)
  \/ SdCreate

SpecSilence == InitSilence /\ [][NextSilence]_vars

(***************************************************************************)
(* Properties                                                              *)
(***************************************************************************)

\* the handler's guard lets the chunk of this step through
Passes == isListening /\ kws # NoHandle /\ stream # NoHandle

\* a keyword that is neither missing nor empty nor made of whitespace only
NonEmptyKeyword(kw) ==
  kw.present /\ \E i \in 1..Len(kw.text) : kw.text[i] \notin Whitespace

AllLoud(buf) ==
  \A i \in 1..Len(buf) : Abs(buf[i].val) >= EffSilenceAmplitude

LastCommand == commands[Len(commands)]

\* C1: a chunk processed in Idle emits wakeword and listening, and leaves the
\* engine Recording, if and only if the spotter's keyword is non-empty after
\* trimming; with an empty, missing or whitespace-only keyword the engine
\* stays Idle and listening and emits nothing.  (A listener of listening that
\* calls stop() ends the episode it was told about; the final mode is stated
\* for the steps whose listening listener does not.)
C1_KeywordGate ==
  [][ (last'.op = "chunk" /\ Passes /\ ~isRecordingCommand)
        => LET k == last'.kw
           IN  /\ Emitted(out', "wakeword") <=> NonEmptyKeyword(k)
               /\ Emitted(out', "listening") <=> NonEmptyKeyword(k)
               /\ last'.rL = "none" => (isRecordingCommand' <=> NonEmptyKeyword(k))
               /\ ~NonEmptyKeyword(k)
                    => /\ ~isRecordingCommand'
                       /\ isListening'
                       /\ out' = <<>> ]_vars

C1_Witness ==
  /\ last.op = "chunk"
  /\ fed
  /\ NonEmptyKeyword(last.kw)
  /\ last.rW = "none"
  /\ last.rL = "none"
  /\ isRecordingCommand
  /\ Emitted(out, "listening")

\* C2: no command event carries a chunk that was buffered in an episode
\* ended by stop(), and the engine is Idle when a stop() called while it was
\* Recording has returned (called from outside, by cleanup(), or by a
\* listener of listening)
C2_CancelledNeverDelivered ==
  /\ \A i \in 1..Len(commands) : IdSet(commands[i].payload) \cap cancelled = {}
  /\ last.op \in {"stop", "cleanup"} => ~isRecordingCommand
  /\ (last.op = "chunk" /\ last.rL = "stop") => ~isRecordingCommand

C2_Witness ==
  /\ cancelled # {}
  /\ commands # <<>>
  /\ \E id \in cancelled : id < LastCommand.payload[1].id

\* C3: a chunk processed in Recording ends the episode, with exactly one
\* command event, if and only if the silence decision fires on it (it is
\* below the silence amplitude, silenceStartTime is set and more than the
\* silence duration has passed since) or the buffered duration including it
\* is greater than maxDuration; otherwise the engine stays Recording and
\* emits no command
C3_EndOfUtterance ==
  [][ (last'.op = "chunk" /\ Passes /\ isRecordingCommand)
        => LET c == last'.chunk
               silenceFires ==
                 /\ Abs(c.val) < EffSilenceAmplitude
                 /\ silenceStartTime # NULL
                 /\ now' - silenceStartTime > config.silenceThreshold
               overCap ==
                 (TotalBytes(audioBuffer) + c.len) * 1000
                   > config.maxDuration * 2 * config.sampleRate
           IN  IF silenceFires \/ overCap
                 THEN /\ CountEv(out', "command") = 1
                      /\ ~isRecordingCommand'
                 ELSE /\ CountEv(out', "command") = 0
                      /\ isRecordingCommand' ]_vars

C3_Witness ==
  /\ last.op = "chunk"
  /\ Emitted(out, "command")
  /\ ~isRecordingCommand
  /\ last.chunk.val = 100
  /\ TotalBytes(LastCommand.payload) = 32000

\* C4: the payload of every command event is the sequence, in arrival
\* order, of exactly the chunks that were handled in Recording during the
\* episode it ends (never the chunk that carried the wake word, never a chunk
\* of another episode), and no episode has two command events
C4_PayloadIsEpisode ==
  /\ \A i \in 1..Len(commands) :
       LET pl == commands[i].payload
       IN  /\ IdSet(pl) = {id \in 1..Len(epochOf) : epochOf[id] = commands[i].ep}
           /\ \A j, k \in 1..Len(pl) : j < k => pl[j].id < pl[k].id
           /\ commands[i].ep > 0
  /\ \A i, j \in 1..Len(commands) : i # j => commands[i].ep # commands[j].ep

C4_Witness ==
  /\ Len(commands) = 2
  /\ commands[2].ep = 2
  /\ \E id \in 1..Len(epochOf) : epochOf[id] = 1

\* C5 as stated: with maxDuration = 1000 and sampleRate = 16000 the engine is
\* never still Recording with 32000 or more bytes of loud audio buffered
C5_CutoffAt32000 ==
  (/\ isRecordingCommand
   /\ config.maxDuration = 1000
   /\ config.sampleRate = 16000
   /\ AllLoud(audioBuffer))
    => TotalBytes(audioBuffer) < 32000

\* C5 amended: with maxDuration = 1000 and sampleRate = 16000, a loud chunk
\* processed in Recording forces the finalization if and only if it brings
\* the buffered total above 32000 bytes; at 32000 bytes or less the engine is
\* still Recording and has emitted no command
C5_CutoffAbove32000 ==
  [][ (/\ last'.op = "chunk" /\ Passes /\ isRecordingCommand
       /\ config.maxDuration = 1000
       /\ config.sampleRate = 16000
       /\ Abs(last'.chunk.val) >= EffSilenceAmplitude)
        => IF TotalBytes(audioBuffer) + last'.chunk.len > 32000
             THEN ~isRecordingCommand' /\ CountEv(out', "command") = 1
             ELSE isRecordingCommand' /\ CountEv(out', "command") = 0 ]_vars

C5_Witness ==
  /\ last.op = "chunk"
  /\ Emitted(out, "command")
  /\ ~isRecordingCommand
  /\ AllLoud(LastCommand.payload)
  /\ Len(LastCommand.payload) = 3
  /\ TotalBytes(LastCommand.payload) = 48000

\* C6 as stated: whenever stop() has returned and start() has not been
\* called since, the engine is Idle; and start() leaves it Idle
C6_StoppedIsIdle ==
  /\ ~isListening => ~isRecordingCommand
  /\ last.op = "start" => ~isRecordingCommand

\* C7: a chunk delivered while the engine is stopped is dropped: it is not
\* fed to the spotter, not buffered, changes no field of the engine and emits
\* nothing
C7_StoppedIgnoresChunks ==
  [][ (last'.op = "chunk" /\ ~isListening)
        => /\ ~fed'
           /\ out' = <<>>
           /\ sounds' = <<>>
           /\ UNCHANGED <<kws, stream, isListening, isRecordingCommand,
                          recordingProcess, audioBuffer, silenceStartTime,
                          alive, commands, epoch>> ]_vars

\* a chunk queued by the killed capture process arrives after a stop() that
\* cancelled an episode with audio buffered
C7_Witness ==
  /\ last.op = "chunk"
  /\ ~isListening
  /\ last.stale
  /\ ~fed
  /\ ~isRecordingCommand
  /\ audioBuffer # <<>>
  /\ kws # NoHandle
  /\ stream # NoHandle

\* C8: start() on an engine that is already listening launches no capture
\* process, emits nothing and changes no field; at most one capture process
\* is live at any time
C8_StartIdempotent ==
  [][ /\ (last'.op = "start" /\ isListening)
          => /\ out' = <<>>
             /\ UNCHANGED <<kws, stream, isListening, isRecordingCommand,
                            recordingProcess, audioBuffer, silenceStartTime,
                            nproc, alive>>
      /\ Cardinality(alive') <= 1 ]_vars

C8_Witness ==
  /\ last.op = "start"
  /\ out = <<>>
  /\ isListening
  /\ alive = {recordingProcess}

\* C9 as stated: stop() on an engine that is already stopped changes no
\* field and emits no event
C9_StopIdempotent ==
  [][ (last'.op = "stop" /\ ~isListening /\ ~isRecordingCommand
       /\ recordingProcess = NoHandle)
        => /\ out' = <<>>
           /\ UNCHANGED <<isListening, isRecordingCommand, recordingProcess,
                          audioBuffer, silenceStartTime>> ]_vars

\* C10 as stated: whenever the engine is Idle the command buffer is empty
\* and silenceStartTime is unset
C10_IdleIsClean ==
  ~isRecordingCommand => (audioBuffer = <<>> /\ silenceStartTime = NULL)

\* C11: initialize() never throws or rejects: with the model missing, the
\* spotter library not loadable or the spotter not constructible, it
\* completes normally and leaves the engine without a usable spotter.
C11_InitializeNeverThrows ==
  last.op = "initialize" => ~last.threw

\* C12: as long as no initialize() has succeeded, start() returns at its
\* guard (no capture process, no event) and the engine never leaves Idle:
\* it is neither listening nor recording, no chunk reaches the spotter, and
\* no wakeword, listening or command event is emitted.
C12_UninitializedStaysIdle ==
  madeStreams = {}
    => /\ ~isListening
       /\ ~isRecordingCommand
       /\ nproc = 0
       /\ ~fed
       /\ epoch = 0
       /\ commands = <<>>
       /\ ~Emitted(out, "wakeword")
       /\ ~Emitted(out, "listening")
       /\ ~Emitted(out, "command")
       /\ last.op = "start" => out = <<>>

\* start() called on an engine whose initialize() built the spotter and then
\* failed to create the stream
C12_Witness ==
  madeStreams = {} /\ last.op = "start" /\ kws # NoHandle

\* C13: what a spotter call raises while a chunk is processed does not
\* escape the chunk handler and is surfaced as an error event.
C13_FaultContained ==
  (last.op = "chunk" /\ last.ex # "none")
    => ~last.threw /\ Emitted(out, "error")

\* C14: when the capture process reports a failure the engine emits an error
\* event and does not stop itself: its listening flag and its mode are
\* unchanged and no capture is started.
C14_CaptureErrorSurfaced ==
  [][ last'.op = "captureError"
        => /\ Emitted(out', "error")
           /\ isListening' = isListening
           /\ isRecordingCommand' = isRecordingCommand
           /\ nproc' = nproc ]_vars

\* C15: the spotter stream is reset per utterance: whenever the engine reads
\* the spotter's result, the stream has been reset since the last keyword it
\* reported, so that a result left over from a detection cannot start
\* another episode.
C15_ResetBeforeNextRead ==
  [][ (last'.op = "chunk" /\ fed') => ~dirty ]_vars

\* C16: no handle is released twice, and once cleanup() has been called
\* every spotter and every stream created so far has been released exactly
\* once.
C16_ReleasedExactlyOnce ==
  /\ ~refreed
  /\ last.op = "cleanup"
       => /\ \A h \in 1..ninit : h \in freedKws
          /\ \A h \in madeStreams : h \in freedStreams

(***************************************************************************)
(* The silence detector                                                    *)
(***************************************************************************)
\* the detector as specified: a timestamp is unset when it is null
SilenceReference(state, amp, silenceAmplitude, silenceDurationMs, t) ==
  IF amp < silenceAmplitude
    THEN IF state.silenceStartTime = NULL
           THEN [state |-> [state EXCEPT !.silenceStartTime = t],
                 shouldEnd |-> FALSE]
           ELSE IF t - state.silenceStartTime > silenceDurationMs
             THEN [state |-> [state EXCEPT !.silenceStartTime = NULL],
                   shouldEnd |-> TRUE]
             ELSE [state |-> state, shouldEnd |-> FALSE]
    ELSE [state |-> [state EXCEPT !.silenceStartTime = NULL],
          shouldEnd |-> FALSE]

SdLast == sdTrace[Len(sdTrace)]

\* silenceStartTime of the state passed to the i-th call of sdTrace
SdBefore(i) ==
  IF i = 1 THEN sdInit.silenceStartTime ELSE sdTrace[i - 1].start

SdQuiet(i, j) == \A k \in i..j : sdTrace[k].amp < sdAmp

\* calls j at which a below-threshold run begins from an unset timestamp and
\* lasts up to the latest call
SdRunStarts ==
  {j \in 1..Len(sdTrace) : SdBefore(j) = NULL /\ SdQuiet(j, Len(sdTrace))}

\* the first call of the run the latest call belongs to
SdRunStart == CHOOSE j \in SdRunStarts : \A k \in SdRunStarts : k <= j

\* C17: updateSilenceDetector returns what the specified detector returns,
\* for every state, chunk, threshold and time, a stored silenceStartTime of
\* 0 included.
C17_MatchesReference ==
  [][ sdStep' = sdStep + 1
        => [state |-> sdState', shouldEnd |-> sdShouldEnd']
             = SilenceReference(sdState, sdTrace'[Len(sdTrace')].amp,
                                sdAmp, sdDur, sdNow') ]_vars

\* C18 as stated: in a below-threshold run that began from an unset
\* timestamp, shouldEnd is false before silenceStartTime + duration and true
\* on the first update at or after it.
C18_EndsAtOrAfter ==
  (sdTrace # <<>> /\ SdRunStarts # {})
    => (SdLast.shouldEnd <=> SdLast.t >= sdTrace[SdRunStart].t + sdDur)

\* C18: in a below-threshold run that began from an unset timestamp,
\* shouldEnd is false up to and including silenceStartTime + duration and
\* true on the first update after it.
C18_EndsAfter ==
  (sdTrace # <<>> /\ SdRunStarts # {})
    => (SdLast.shouldEnd <=> SdLast.t > sdTrace[SdRunStart].t + sdDur)

\* an update exactly silenceDurationMs after the run began
C18_Witness ==
  /\ sdTrace # <<>>
  /\ SdRunStarts # {}
  /\ SdLast.t = sdTrace[SdRunStart].t + sdDur
  /\ ~SdLast.shouldEnd

ScenarioTimes == <<0, 100, 200, 310>>

\* the calls so far are the first ones of the scenario: a fresh state,
\* threshold 500, duration 300 ms, amplitude 100 at 0, 100, 200, 310 ms
InScenario ==
  /\ sdInit = createSilenceDetectorState
  /\ sdAmp = 500
  /\ sdDur = 300
  /\ Len(sdTrace) \in 1..Len(ScenarioTimes)
  /\ \A i \in 1..Len(sdTrace) :
       /\ sdTrace[i].amp = 100
       /\ sdTrace[i].t = sdTrace[1].t + ScenarioTimes[i]

C20_StartOnlyInOngoingRun ==
  sdTrace # <<>>
    => /\ (SdLast.amp >= sdAmp \/ sdShouldEnd)
            => sdState.silenceStartTime = NULL
       /\ (sdState.silenceStartTime # NULL /\ SdRunStarts # {})
            => sdState.silenceStartTime = sdTrace[SdRunStart].t
       /\ (sdShouldEnd /\ sdInit.silenceStartTime = NULL)
            => \E j \in 1..Len(sdTrace) :
                 /\ SdQuiet(j, Len(sdTrace))
                 /\ SdLast.t - sdTrace[j].t > sdDur

\* a run cut short by a loud chunk, then a second run that has lasted longer
\* than the duration counted from the first one, and has not ended
C20_Witness ==
  /\ Len(sdTrace) >= 3
  /\ \E i \in 1..Len(sdTrace), j \in 1..Len(sdTrace) :
       /\ i < j
       /\ sdTrace[i].amp < sdAmp
       /\ sdTrace[j].amp >= sdAmp
       /\ sdTrace[j].t - sdTrace[i].t <= sdDur
       /\ SdLast.t - sdTrace[i].t > sdDur
  /\ SdLast.amp < sdAmp
  /\ ~sdShouldEnd
  /\ sdState.silenceStartTime # NULL

\* C21: a chunk whose amplitude equals the silence threshold is not silent:
\* isSilent is false of it, updateSilenceDetector clears silenceStartTime
\* and returns shouldEnd = false, and an engine configured with that
\* threshold clears its silenceStartTime and does not finish.
C21_ThresholdIsNotSilent ==
  (sdTrace # <<>> /\ SdLast.amp = sdAmp)
    => /\ ~SdLast.silent
       /\ ~SdLast.shouldEnd
       /\ SdLast.start = NULL
       /\ sdDur = config.silenceThreshold
            => SdLast.twin = NULL /\ ~SdLast.twinEnd

\* C29: for every configured silence amplitude, 0 included, the engine's
\* recording path and updateSilenceDetector, stepped side by side from a
\* fresh state, keep the same silenceStartTime, and the engine finishes by
\* silence on exactly the chunks for which shouldEnd is true.
C29_EngineRunsDetector ==
  (/\ sdTrace # <<>>
   /\ sdInit = createSilenceDetectorState
   /\ sdAmp = config.silenceAmplitude
   /\ sdDur = config.silenceThreshold)
    => \A i \in 1..Len(sdTrace) :
         /\ sdTrace[i].twin = sdTrace[i].start
         /\ sdTrace[i].twinEnd = sdTrace[i].shouldEnd

C25_CuesFollowToggle ==
  [][ LET started == epoch' - epoch
          finished == Len(commands') - Len(commands)
      IN  /\ CountCue(sounds', "Ping") = IF config.playSound THEN started ELSE 0
          /\ CountCue(sounds', "Pop") = IF config.playSound THEN finished ELSE 0
          /\ Len(sounds') = CountCue(sounds', "Ping") + CountCue(sounds', "Pop")
          /\ started \in {0, 1}
          /\ finished \in {0, 1}
          /\ last'.op \in {"stop", "cleanup"} => sounds' = <<>> ]_vars

\* a finalization played its cue after an earlier episode was cancelled
C25_Witness ==
  /\ config.playSound
  /\ sounds = <<"Pop">>
  /\ Emitted(out, "command")
  /\ cancelled # {}

\* C26: a chunk that passes the handler's guard is handled by one duty: in
\* Idle it is fed to the spotter and is in no buffer and no payload; in
\* Recording it is not fed to the spotter and is the last chunk of the
\* buffer or of the payload delivered; the buffer keeps arrival order.
C26_OneDutyPerChunk ==
  [][ (last'.op = "chunk" /\ nchunks' = nchunks + 1 /\ Passes)
        => LET c == last'.chunk
               held == IdSet(audioBuffer') \cup
                         UNION {IdSet(commands'[i].payload) :
                                  i \in 1..Len(commands')}
           IN  /\ isRecordingCommand
                    => /\ ~fed'
                       /\ \/ /\ audioBuffer' # <<>>
                             /\ audioBuffer'[Len(audioBuffer')] = c
                          \/ /\ Len(commands') = Len(commands) + 1
                             /\ LET pl == commands'[Len(commands')].payload
                                IN  pl # <<>> /\ pl[Len(pl)] = c
               /\ ~isRecordingCommand => (fed' /\ c.id \notin held)
               /\ \A j, k \in 1..Len(audioBuffer') :
                    j < k => audioBuffer'[j].id < audioBuffer'[k].id ]_vars

\* a chunk was buffered, not fed, behind an earlier one, after a chunk that
\* was fed and not buffered
C26_Witness ==
  /\ last.op = "chunk"
  /\ ~fed
  /\ Len(audioBuffer) >= 2
  /\ audioBuffer[Len(audioBuffer)] = last.chunk
  /\ audioBuffer[1].id > 1

\* C28: whenever a Recording episode starts, the command buffer is empty and
\* silenceStartTime is unset, also after an episode that stop() ended with
\* chunks buffered and a silent run under way.
C28_EpisodeStartsClean ==
  [][ epoch' # epoch
        => /\ Emitted(out', "listening")
           /\ audioBuffer' = <<>>
           /\ silenceStartTime' = NULL ]_vars

\* an episode starts after an earlier one was cancelled with chunks buffered
C28_Witness ==
  /\ Emitted(out, "listening")
  /\ isRecordingCommand
  /\ epoch >= 2
  /\ cancelled # {}
  /\ audioBuffer = <<>>

\* the 32-bit little-endian number at a byte offset of a file
readUInt32LE(b, off) == b[off + 1] + 256 * b[off + 2] + 65536 * b[off + 3] + 16777216 * b[off + 4]

\* C22: when no header field overflows, the file saveToWav writes is 44
\* bytes longer than the payload, holds payload length + 36 at offset 4,
\* the payload length at offset 40, sampleRate * channels * 2 at offset 28,
\* channels * 2 at offset 32, and the payload itself from offset 44 on.
C22_WavLayout ==
  (auFile.done /\ ~auFile.threw)
    => LET f == auFile.bytes
           n == Len(auBuffer)
       IN  /\ Len(f) = 44 + n
           /\ readUInt32LE(f, 4) = n + 36
           /\ readUInt32LE(f, 40) = n
           /\ readUInt32LE(f, 28) = auRate * auChannels * 2
           /\ readUInt16LE(f, 32) = auChannels * 2
           /\ SubSeq(f, 45, Len(f)) = auBuffer

\* a file was written for a payload that is not empty, in stereo
C22_Witness ==
  /\ auFile.done
  /\ ~auFile.threw
  /\ Len(auBuffer) = MaxPayload
  /\ auChannels = 2
  /\ auRate = 44100

\* Math.round(x * 32768) of a Float32Array element x
RoundScaled(x) ==
  LET e == x.exp + 15
  IN  IF e >= 0
        THEN x.num * Pow2(e)
        ELSE (2 * x.num + Pow2(0 - e)) \div Pow2(1 - e)

\* C23: bufferToFloat32 returns one value per 16-bit sample, in order; each
\* value times 32768, rounded, is the sample, and lies between -1 and 1.
C23_RoundTrip ==
  (auFloats.done /\ Len(auBuffer) % 2 = 0)
    => /\ ~auFloats.threw
       /\ Len(auFloats.vals) = Len(auBuffer) \div 2
       /\ \A i \in 1..Len(auFloats.vals) :
            LET x == auFloats.vals[i]
                v == readInt16LE(auBuffer, 2 * (i - 1))
            IN  /\ v \in Int16Min..Int16Max
                /\ RoundScaled(x) = v
                /\ x.num * Pow2(x.exp + 15) >= 0 - Int16Scale
                /\ x.num * Pow2(x.exp + 15) <= Int16Scale

\* the lowest sample was converted
C23_Witness ==
  /\ auFloats.done
  /\ ~auFloats.threw
  /\ Len(auFloats.vals) = 1
  /\ readInt16LE(auBuffer, 0) = Int16Min

C27_DrainThenRead ==
  /\ [](/\ kAccepts <= 1
        /\ kReads <= 1
        /\ ~kReadWhileReady
        /\ kPc # "idle" => (kAccepts = 1 /\ kReads = 0)
        /\ (kPc = "idle" /\ kFed > 0 /\ ~kThrew)
             => /\ kAccepts = 1
                /\ kReads = 1
                /\ kDecodes = kDue
                /\ kPending = 0)
  /\ (kPc # "idle") ~> (kPc = "idle")

\* a chunk was processed with more decode steps ready than it brought, left
\* over from a chunk whose processing was cut short
C27_Witness ==
  /\ kPc = "idle"
  /\ ~kThrew
  /\ kReads = 1
  /\ kDecodes > MaxFrames

\* the engine is started when event i of the sequence o is emitted, given
\* that it was (or was not) before the first one
StartedAt(o, i, before) ==
  LET marks == {j \in 1..(i - 1) : o[j].name \in {"started", "stopped"}}
  IN  IF marks = {}
        THEN before
        ELSE o[CHOOSE j \in marks : \A k \in marks : k <= j].name = "started"

\* C31: in the events of every operation, a listening event comes right
\* after a wakeword event; a command event belongs to an episode whose
\* listening event was emitted, and no two command events belong to the same
\* episode; wakeword, listening and command are emitted only while the
\* engine is started (after a started event with no stopped event since).
C31_EventOrder ==
  [][ /\ \A i \in 1..Len(out') :
           /\ out'[i].name = "listening"
                => (i > 1 /\ out'[i - 1].name = "wakeword")
           /\ out'[i].name \in {"wakeword", "listening", "command"}
                => StartedAt(out', i, isListening)
      /\ CountEv(out', "command") = Len(commands') - Len(commands)
      /\ CountEv(out', "listening") = epoch' - epoch
      /\ \A i \in 1..Len(commands') :
           /\ commands'[i].ep \in 1..epoch'
           /\ \A j \in 1..Len(commands') :
                i # j => commands'[i].ep # commands'[j].ep ]_vars

\* chunks of the shortest length that make the buffer longer than the cap
CapChunks == (config.maxDuration * 2 * config.sampleRate) \div (1000 * 16000) + 1

\* C32: a listening engine in Recording to which chunks keep arriving
\* leaves Recording (as long as CapChunks more chunks can arrive), whatever
\* their amplitudes.
C32_EpisodeEnds ==
  (isRecordingCommand /\ isListening /\ nchunks + CapChunks <= MaxChunks)
    ~> ~isRecordingCommand

\* an episode ended by the cap with loud chunks only
C32_Witness ==
  /\ Emitted(out, "command")
  /\ AllLoud(LastCommand.payload)
  /\ Len(LastCommand.payload) = CapChunks

\* bytes that stand for maxDuration ms of audio
CapBytes == (config.maxDuration * 2 * config.sampleRate) \div 1000

\* C33: while the engine is in Recording the buffered audio is at most
\* maxDuration long, and every command payload without its last chunk is at
\* most maxDuration long.
C33_BufferWithinCap ==
  /\ isRecordingCommand => TotalBytes(audioBuffer) <= CapBytes
  /\ \A i \in 1..Len(commands) :
       LET pl == commands[i].payload
       IN  /\ pl # <<>>
           /\ TotalBytes(pl) - pl[Len(pl)].len <= CapBytes

\* the engine is still Recording after a chunk that brought the buffer to
\* exactly maxDuration
C33_Witness ==
  /\ isRecordingCommand
  /\ last.op = "chunk"
  /\ Len(audioBuffer) = 2
  /\ audioBuffer[2] = last.chunk
  /\ TotalBytes(audioBuffer) = CapBytes

\* C34: a chunk that comes from a capture process killed by stop() is not
\* processed, also after a later start(): it is not fed to the spotter, not
\* buffered, and no event follows from it.
C34_StaleChunkIgnored ==
  [][ (last'.op = "chunk" /\ nchunks' = nchunks + 1 /\ last'.stale)
        => /\ ~fed'
           /\ audioBuffer' = audioBuffer
           /\ commands' = commands
           /\ out' = <<>> ]_vars

\* C35: when start() has returned with the engine marked as listening, a
\* live capture process is attached; a start() whose capture could not be
\* launched leaves the engine not listening.
C35_ListeningHasCapture ==
  (last.op = "start" /\ isListening)
    => (recordingProcess # NoHandle /\ recordingProcess \in alive)

\* C36: at most one daemon runs at any time, booted or still booting,
\* however start and restart are interleaved.
C36_SingleDaemon == Cardinality(procs) <= 1

\* C37: for a payload with an even number of bytes, what readWavFile reads
\* from the file saveToWav wrote is one value per sample of the payload, in
\* order, each the sample divided by 32768 as a float: the same samples
\* bufferToFloat32 makes of the payload.
C37_ReadBackSamples ==
  (auRead.done /\ Len(auBuffer) % 2 = 0)
    => /\ ~auRead.threw
       /\ Len(auRead.vals) = Len(auBuffer) \div 2
       /\ \A i \in 1..Len(auRead.vals) :
            /\ auRead.vals[i].exp = 0 - 15
            /\ auRead.vals[i].num = readInt16LE(auBuffer, 2 * (i - 1))
       /\ auFloats.done => (~auFloats.threw /\ auRead.vals = auFloats.vals)

\* a file holding two different samples was read back, and the payload was
\* converted as well
C37_Witness ==
  /\ auRead.done
  /\ ~auRead.threw
  /\ auFloats.done
  /\ Len(auRead.vals) = 2
  /\ auRead.vals[1] # auRead.vals[2]

\* C38: for every key set since the last reset, getConfigValue returns the
\* coerced value that was set, from the cache as well as after the cache is
\* cleared and the file is loaded again; a value that was got is that value.
C38_SetThenGet ==
  /\ \A k \in CfgKeys :
       cfgSet[k] # Undefined
         => /\ getConfigValue(cachedConfig, cfgFile, k) = cfgSet[k]
            /\ getConfigValue(NoConfig, cfgFile, k) = cfgSet[k]
  /\ (cfgGot.key # "" /\ cfgSet[cfgGot.key] # Undefined)
       => cfgGot.val = cfgSet[cfgGot.key]

====
